---- MODULE Spec2Model ----
(***************************************************************************)
(* A model of tray_rust's scene loader (src/scene.rs) and of the Glass     *)
(* material (src/material/glass.rs).                                       *)
(*                                                                         *)
(* Modules of the renderer that scene.rs and glass.rs call (film::Colorf,  *)
(* bxdf::BSDF, linalg::AnimatedTransform, geometry::BVH, geometry::        *)
(* Instance) are modelled from the design document; each such definition   *)
(* says so in its comment.                                                 *)
(***************************************************************************)
EXTENDS Integers, Sequences, FiniteSets, TLC

(***************************************************************************)
(* Bounds of the model.                                                    *)
(***************************************************************************)
\* Largest value of one colour channel (channels are 0..ColorMax).
ColorMax == 1
\* Refractive indices tried for a glass material are 1..MaxEta.
MaxEta == 2
\* At most MaxObjects objects (groups included) are read from a document.
MaxObjects == 3
\* Groups nest at most MaxDepth deep.
MaxDepth == 2
\* A materials array has at most MaxMats elements.
MaxMats == 3
\* A "keyframes" array has at most MaxKeys keyframes, at times 0..MaxTime.
MaxKeys == 2
MaxTime == 1
\* A nearest-hit query runs against at most MaxInst instances.
MaxInst == 5
\* NumWorkers worker threads render the scene.
NumWorkers == 2
\* The documents give min_depth and max_depth in 0..MaxBounces.
MaxBounces == 3
\* A "transform" array on the camera has at most MaxEntries entries.
MaxEntries == 3

(***************************************************************************)
(* Option values: None is the empty tuple, Some(x) the one-element tuple.  *)
(***************************************************************************)
None == <<>>
Some(x) == <<x>>
IsSome(o) == Len(o) = 1
Unwrap(o) == o[1]

(***************************************************************************)
(* film::Colorf                                                            *)
(***************************************************************************)
Channels == 0..ColorMax
Colors == Channels \X Channels \X Channels
Black == <<0, 0, 0>>
\* Colorf::is_black: all three channels are zero.
is_black(c) == c[1] = 0 /\ c[2] = 0 /\ c[3] = 0
\* Colorf + Colorf, channel by channel.
ColorAdd(a, b) == <<a[1] + b[1], a[2] + b[2], a[3] + b[3]>>

(***************************************************************************)
(* State                                                                   *)
(***************************************************************************)
VARIABLES
    \* ---- material/glass.rs ----
    glass_in,     \* the arguments of Glass::new: [reflect, transmit, eta]
    glass,        \* Option<Glass>: the material, once constructed
    bsdf,         \* Option<BSDF>: the BSDF Glass::bsdf returned for a hit
    bsdf_out,     \* the result of the last BSDF::eval / BSDF::sample call
    \* ---- scene.rs: Scene::load_file ----
    pc,           \* where load_file is: "camera", "integrator", "materials",
                  \* "objects", "done" (returned) or "aborted" (panicked)
    camera,       \* Option<Camera>: the local `camera`
    integrator,   \* Option<Integrator>: the local `integrator`
    materials,    \* the local `materials`: name -> material
    mat_i,        \* load_materials: the element of the array the loop is at
    mesh_cache,   \* the local `mesh_cache`: file -> (model -> mesh)
    obj_loads,    \* the files Mesh::load_obj was called on, in call order
    stack,        \* the active load_objects calls, outermost first: each
                  \* frame holds the enclosing group's `transform` and the
                  \* call's `instances`
    nread,        \* how many objects of the document have been read
    scene,        \* Option<Scene>: what load_file returned
    panic,        \* Option<message>: the panic that ended load_file
    doc,          \* the camera, integrator and materials of the document
    \* ---- rendering: Scene::intersect ----
    bvh_in,       \* the instances and the ray of a nearest-hit query
    bvh_out,      \* the query's results, one per max_leaf_size of the BVH
    calls,        \* per worker thread, its call of Scene::intersect: where
                  \* it is, the ray it was given, the traversal and the result
    trace         \* the integrator's trace of one camera ray: where it is,
                  \* the depth it is at, the hits still to shade

glassVars == <<glass_in, glass, bsdf, bsdf_out>>
loadVars == <<pc, camera, integrator, materials, mat_i, mesh_cache, obj_loads, stack,
              nread, scene, panic, doc>>
renderVars == <<bvh_in, bvh_out, calls, trace>>
vars == <<glassVars, loadVars, renderVars>>

(***************************************************************************)
(* material/glass.rs                                                       *)
(***************************************************************************)
\* bxdf::SpecularReflection::new(reflect, Dielectric::new(1.0, eta))
SpecularReflection(c, eta) ==
    [bxdf |-> "SpecularReflection", color |-> c, fresnel |-> <<1, eta>>]
\* bxdf::SpecularTransmission::new(transmit, Dielectric::new(1.0, eta))
SpecularTransmission(c, eta) ==
    [bxdf |-> "SpecularTransmission", color |-> c, fresnel |-> <<1, eta>>]

\* Glass::new with the is_black test on `reflect` left out.
Glass_new_NoReflectTest(reflect, transmit, eta) ==
    [bxdfs |-> <<SpecularReflection(reflect, eta)>>
               \o (IF ~is_black(transmit)
                   THEN <<SpecularTransmission(transmit, eta)>> ELSE <<>>),
     eta |-> eta]

\* Glass::new with the two pushes in the other order.
Glass_new_Swapped(reflect, transmit, eta) ==
    [bxdfs |-> (IF ~is_black(transmit)
                THEN <<SpecularTransmission(transmit, eta)>> ELSE <<>>)
               \o (IF ~is_black(reflect)
                   THEN <<SpecularReflection(reflect, eta)>> ELSE <<>>),
     eta |-> eta]

\* Glass::new
Glass_new(reflect, transmit, eta) ==
    LET bxdfs0 == <<>>
        bxdfs1 == IF ~is_black(reflect)
                  THEN Append(bxdfs0, SpecularReflection(reflect, eta))
                  ELSE bxdfs0
        bxdfs2 == IF ~is_black(transmit)
                  THEN Append(bxdfs1, SpecularTransmission(transmit, eta))
                  ELSE bxdfs1
    IN  [bxdfs |-> bxdfs2, eta |-> eta]

\* The hits a BSDF is built for: the differential geometry is a label.
Hits == {"dg1", "dg2"}

\* bxdf::BSDF::new(bxdfs, eta, dg): borrows the term list, keeps eta and
\* builds the shading frame from the hit's differential geometry.
BSDF_new(bxdfs, eta, dg) == [bxdfs |-> bxdfs, eta |-> eta, frame |-> dg]

\* <Glass as Material>::bsdf
Glass_bsdf(self, hit) == BSDF_new(self.bxdfs, self.eta, hit)

(***************************************************************************)
(* bxdf::BSDF (from the design document, section 4.3).  Directions are in  *)
(* the local shading frame and are represented by the sign of their z      *)
(* component: 1 is the hemisphere of the shading normal, -1 the other one. *)
(***************************************************************************)
Dirs == {-1, 1}
IsReflectionTerm(b) == b.bxdf = "SpecularReflection"

\* The terms whose scattering type matches the relation between wo and wi:
\* same hemisphere, reflection terms only; opposite, transmission only.
Matching(b, wo, wi) == IF wo = wi THEN IsReflectionTerm(b) ELSE ~IsReflectionTerm(b)

RECURSIVE SumTerms(_, _, _, _)
SumTerms(bxdfs, i, wo, wi) ==
    IF i > Len(bxdfs) THEN Black
    ELSE ColorAdd(IF Matching(bxdfs[i], wo, wi) THEN bxdfs[i].color ELSE Black,
                  SumTerms(bxdfs, i + 1, wo, wi))

\* BSDF::eval(wo, wi): the sum of the matching terms' contributions.
BSDF_eval(b, wo, wi) == SumTerms(b.bxdfs, 1, wo, wi)

\* The "no scattering" result of BSDF::sample.
NoScattering == [f |-> Black, wi |-> 0, pdf |-> "zero", specular |-> FALSE]

\* BSDF::sample(wo, u): with no term there is nothing to pick and the result
\* is the sentinel; otherwise term number u (1..n) is picked and a direction
\* is drawn from it: the mirror direction or the refracted one.
BSDF_sample(b, wo, u) ==
    IF Len(b.bxdfs) = 0 THEN NoScattering
    ELSE LET t == b.bxdfs[((u - 1) % Len(b.bxdfs)) + 1]
         IN  [f |-> t.color,
              wi |-> IF IsReflectionTerm(t) THEN wo ELSE -wo,
              pdf |-> "delta", specular |-> TRUE]

(***************************************************************************)
(* Specification of the material: construct, build a BSDF, evaluate/sample *)
(***************************************************************************)
\* The loader is not running (the material is used on its own).
LoadIdle ==
    /\ pc = "idle"
    /\ camera = None
    /\ integrator = None
    /\ materials = <<>>
    /\ mat_i = 1
    /\ mesh_cache = <<>>
    /\ obj_loads = <<>>
    /\ stack = <<>>
    /\ nread = 0
    /\ scene = None
    /\ panic = None
    /\ doc = <<>>

RenderIdle ==
    /\ bvh_in = <<>>
    /\ bvh_out = <<>>
    /\ calls = <<>>
    /\ trace = <<>>


GlassInputs == [reflect : Colors, transmit : Colors, eta : 1..MaxEta]

InitGlass ==
    /\ glass_in \in GlassInputs
    /\ glass = None
    /\ bsdf = None
    /\ bsdf_out = None
    /\ LoadIdle
    /\ RenderIdle

\* let g = Glass::new(&reflect, &transmit, eta)
GlassNew ==
    /\ glass = None
    /\ glass' = Some(Glass_new(glass_in.reflect, glass_in.transmit, glass_in.eta))
    /\ UNCHANGED <<glass_in, bsdf, bsdf_out, loadVars, renderVars>>

\* let b = g.bsdf(&hit)
GlassBsdf ==
    /\ IsSome(glass)
    /\ \E hit \in Hits : bsdf' = Some(Glass_bsdf(Unwrap(glass), hit))
    /\ bsdf_out' = None
    /\ UNCHANGED <<glass_in, glass, loadVars, renderVars>>

\* b.eval(&wo, &wi)
BsdfEval ==
    /\ IsSome(bsdf)
    /\ \E wo \in Dirs, wi \in Dirs :
         bsdf_out' = Some([call |-> "eval", wo |-> wo, wi |-> wi,
                           f |-> BSDF_eval(Unwrap(bsdf), wo, wi)])
    /\ UNCHANGED <<glass_in, glass, bsdf, loadVars, renderVars>>

\* b.sample(&wo, &samples)
BsdfSample ==
    /\ IsSome(bsdf)
    /\ \E wo \in Dirs, u \in 1..2 :
         bsdf_out' = Some([call |-> "sample", wo |-> wo,
                           r |-> BSDF_sample(Unwrap(bsdf), wo, u)])
    /\ UNCHANGED <<glass_in, glass, bsdf, loadVars, renderVars>>

NextGlass == GlassNew \/ GlassBsdf \/ BsdfEval \/ BsdfSample

SpecGlass == InitGlass /\ [][NextGlass]_vars

(***************************************************************************)
(* Claims about the Glass material                                         *)
(***************************************************************************)
ReflIdx(bxdfs) == {i \in 1..Len(bxdfs) : bxdfs[i].bxdf = "SpecularReflection"}
TransIdx(bxdfs) == {i \in 1..Len(bxdfs) : bxdfs[i].bxdf = "SpecularTransmission"}

\* C1: the term list Glass::new builds holds one SpecularReflection term iff
\* reflect is not black and one SpecularTransmission term iff transmit is not
\* black, the reflection term before the transmission term; it has 0, 1 or 2
\* terms, and none exactly when both colours are black.
C1_GlassTerms ==
    IsSome(glass) =>
        LET b == Unwrap(glass).bxdfs
            R == ReflIdx(b)
            T == TransIdx(b)
        IN  /\ Cardinality(R) = (IF glass_in.reflect # Black THEN 1 ELSE 0)
            /\ Cardinality(T) = (IF glass_in.transmit # Black THEN 1 ELSE 0)
            /\ \A i \in R : b[i].color = glass_in.reflect
            /\ \A i \in T : b[i].color = glass_in.transmit
            /\ \A i \in R, j \in T : i < j
            /\ Len(b) = Cardinality(R) + Cardinality(T)
            /\ Len(b) \in {0, 1, 2}
            /\ (Len(b) = 0 <=> (glass_in.reflect = Black /\ glass_in.transmit = Black))

\* C1 witness: a glass with both colours not black has been constructed.
C1_Witness ==
    /\ IsSome(glass)
    /\ glass_in.reflect # Black /\ glass_in.transmit # Black
    /\ Len(Unwrap(glass).bxdfs) = 2

\* C2: the BSDF of a glass whose reflect and transmit colours are both black
\* evaluates to black for every (wo, wi) and every sample() of it returns
\* the "no scattering" result.
C2_BlackGlassBsdf ==
    (IsSome(bsdf) /\ glass_in.reflect = Black /\ glass_in.transmit = Black) =>
        /\ \A wo \in Dirs, wi \in Dirs : BSDF_eval(Unwrap(bsdf), wo, wi) = Black
        /\ \A wo \in Dirs, u \in 1..2 : BSDF_sample(Unwrap(bsdf), wo, u) = NoScattering
        /\ IsSome(bsdf_out) =>
             IF Unwrap(bsdf_out).call = "eval"
             THEN Unwrap(bsdf_out).f = Black
             ELSE Unwrap(bsdf_out).r = NoScattering

\* C2 witness: the BSDF of an all-black glass has been sampled.
C2_Witness ==
    /\ IsSome(bsdf) /\ glass_in.reflect = Black /\ glass_in.transmit = Black
    /\ IsSome(bsdf_out) /\ Unwrap(bsdf_out).call = "sample"

(***************************************************************************)
(* scene.rs: results of the loading functions.  A function either returns  *)
(* (Some(x) or None for an Option, Some(x) for any other type) or panics.  *)
(***************************************************************************)
\* A panic carries its message.
Panic(msg) == <<"panic", msg>>
IsPanic(r) == Len(r) = 2
Message(r) == r[2]
\* Option::expect(msg): the value, or a panic with `msg` on None (a panic of
\* the callee stays that panic).
Expect(r, msg) == IF IsSome(r) \/ IsPanic(r) THEN r ELSE Panic(msg)

(***************************************************************************)
(* JSON values the loader reads (serde_json::Value).                       *)
(***************************************************************************)
JArray(items) == [json |-> "array", items |-> items]
JString(x) == [json |-> "string", str |-> x]
\* Value::as_array
as_array(v) == IF v.json = "array" THEN Some(v.items) ELSE None

(***************************************************************************)
(* linalg::Transform.  A transform is kept as the list of the elementary   *)
(* transforms whose product it is, leftmost factor first, so that two      *)
(* products are equal only when they have the same factors in the same     *)
(* order (matrix multiplication does not commute).                         *)
(***************************************************************************)
\* Transform::identity
Transform_identity == <<>>
\* Transform::translate, scale, rotate_x, rotate_y, rotate_z, rotate
Transform_elementary(ty, arg) == <<[op |-> ty, arg |-> arg]>>
\* impl Mul for Transform
Transform_mul(a, b) == a \o b

\* The transform types load_transform recognizes.
TransformTypes == {"translate", "scale", "rotate_x", "rotate_y", "rotate_z", "rotate"}

\* One iteration of load_transform that multiplies on the other side.
load_transform_step_Right(transform, t) ==
    IF t.type \in TransformTypes
    THEN Some(Transform_mul(transform, Transform_elementary(t.type, t.arg)))
    ELSE None

\* One iteration of the loop of load_transform: the new value of
\* `transform`, or None on an unrecognized type.
load_transform_step(transform, t) ==
    IF t.type \in TransformTypes
    THEN Some(Transform_mul(Transform_elementary(t.type, t.arg), transform))
    ELSE None

RECURSIVE load_transform_loop(_, _, _)
load_transform_loop(array, i, transform) ==
    IF i > Len(array) THEN Some(transform)
    ELSE LET r == load_transform_step(transform, array[i])
         IN  IF IsSome(r) THEN load_transform_loop(array, i + 1, Unwrap(r))
             ELSE None

\* load_transform
load_transform(elem) ==
    LET array == as_array(elem)
    IN  IF ~IsSome(array) THEN None
        ELSE load_transform_loop(Unwrap(array), 1, Transform_identity)

(***************************************************************************)
(* linalg::Keyframe and linalg::AnimatedTransform (from the design         *)
(* document, section 3 and 7).  An animated transform is a product of      *)
(* keyframe lists, kept as the list of its factors, leftmost first.        *)
(***************************************************************************)
\* Keyframe::new
Keyframe_new(transform, time) == [transform |-> transform, time |-> time]

StrictlyIncreasing(keyframes) ==
    \A i \in 1..Len(keyframes) - 1 : keyframes[i].time < keyframes[i + 1].time

\* AnimatedTransform::with_keyframes: the keyframe list is taken as given;
\* the invariant that keyframe times strictly increase is asserted, and a
\* list that breaks it is a fatal contract failure.
AnimatedTransform_with_keyframes(keyframes) ==
    IF StrictlyIncreasing(keyframes) THEN Some(<<keyframes>>)
    ELSE Panic("keyframe times must be strictly increasing")

\* impl Mul for AnimatedTransform
AnimatedTransform_mul(a, b) == a \o b

\* The loop of load_keyframes (scene.rs 575-581): the keyframes in the order
\* of the array, or a panic on an invalid transform.
RECURSIVE load_keyframes_loop(_, _, _)
load_keyframes_loop(array, i, keyframes) ==
    IF i > Len(array) THEN Some(keyframes)
    ELSE LET transform == Expect(load_transform(array[i].transform),
                                 "Invalid transform for keyframe")
         IN  IF IsPanic(transform) THEN transform
             ELSE load_keyframes_loop(array, i + 1,
                      Append(keyframes, Keyframe_new(Unwrap(transform), array[i].time)))

\* load_keyframes that builds the AnimatedTransform without the constructor.
load_keyframes_Unchecked(elem) ==
    LET array == as_array(elem)
    IN  IF ~IsSome(array) THEN None
        ELSE LET keyframes == load_keyframes_loop(Unwrap(array), 1, <<>>)
             IN  IF IsPanic(keyframes) THEN keyframes
                 ELSE Some(<<Unwrap(keyframes)>>)

\* load_keyframes: Some(AnimatedTransform), None, or a panic.
load_keyframes(elem) ==
    LET array == as_array(elem)
    IN  IF ~IsSome(array) THEN None
        ELSE LET keyframes == load_keyframes_loop(Unwrap(array), 1, <<>>)
             IN  IF IsPanic(keyframes) THEN keyframes
                 ELSE AnimatedTransform_with_keyframes(Unwrap(keyframes))

\* AnimatedTransform::transform(time) on one keyframe list: the transform
\* of a single keyframe, whatever the time; else the nearest end outside the
\* range of the keyframes, and the two bracketing keyframes interpolated
\* inside it.
keyframes_transform(keyframes, time) ==
    IF Len(keyframes) = 1 THEN keyframes[1].transform
    ELSE IF time <= keyframes[1].time THEN keyframes[1].transform
    ELSE IF time >= keyframes[Len(keyframes)].time
    THEN keyframes[Len(keyframes)].transform
    ELSE LET i == CHOOSE k \in 1..Len(keyframes) - 1 :
                      keyframes[k].time <= time /\ time < keyframes[k + 1].time
         IN  IF time = keyframes[i].time THEN keyframes[i].transform
             ELSE Transform_elementary("interpolate", <<keyframes[i], keyframes[i + 1], time>>)

\* The transform of an object or camera that prefers "transform" to
\* "keyframes".
load_animated_transform_TransformFirst(o, fallback) ==
    IF IsSome(o.transform)
    THEN LET t == Expect(load_transform(Unwrap(o.transform)), "Invalid transform specified")
         IN  IF IsPanic(t) THEN t
             ELSE AnimatedTransform_with_keyframes(<<Keyframe_new(Unwrap(t), 0)>>)
    ELSE IF IsSome(o.keyframes)
    THEN Expect(load_keyframes(Unwrap(o.keyframes)), "Invalid keyframes specified")
    ELSE IF IsPanic(fallback) THEN fallback
    ELSE AnimatedTransform_with_keyframes(<<Keyframe_new(Unwrap(fallback), 0)>>)

\* The `transform` of an object or of the camera (scene.rs 147-166 and
\* 296-306): the keyframes when given, else the transform at time 0, else
\* what `fallback` gives (a panic for an object, look_at for the camera).
load_animated_transform(o, fallback) ==
    IF IsSome(o.keyframes)
    THEN Expect(load_keyframes(Unwrap(o.keyframes)), "Invalid keyframes specified")
    ELSE LET t == IF IsSome(o.transform)
                  THEN Expect(load_transform(Unwrap(o.transform)),
                              "Invalid transform specified")
                  ELSE fallback
         IN  IF IsPanic(t) THEN t
             ELSE AnimatedTransform_with_keyframes(<<Keyframe_new(Unwrap(t), 0)>>)

(***************************************************************************)
(* scene.rs: load_camera and load_integrator                               *)
(***************************************************************************)
\* Transform::look_at(&pos, &target, &up)
Transform_look_at(at) == Transform_elementary("look_at", at)

\* Camera::new(transform, fov, dim, 0.0, 0.0)
Camera_new(transform, fov) == [transform |-> transform, fov |-> fov]

\* load_camera: the camera, or a panic.
load_camera(elem) ==
    LET transform ==
            load_animated_transform(elem,
                IF IsSome(elem.look_at)
                THEN Some(Transform_look_at(Unwrap(elem.look_at)))
                ELSE Panic("The camera must specify a position"))
    IN  IF IsPanic(transform) THEN transform
        ELSE Some(Camera_new(Unwrap(transform), elem.fov))

\* integrator::Path::new(min_depth, max_depth)
Path_new(min_depth, max_depth) ==
    [ty |-> "path", min_depth |-> min_depth, max_depth |-> max_depth]
\* integrator::Whitted::new(max_depth)
Whitted_new(max_depth) == [ty |-> "whitted", max_depth |-> max_depth]

\* load_integrator that gives Whitted the "max_depth" of the document.
load_integrator_WhittedMaxDepth(elem) ==
    IF elem.type = "pathtracer"
    THEN LET min_depth == Expect(elem.min_depth,
                                 "The integrator must specify the minimum ray depth")
             max_depth == Expect(elem.max_depth,
                                 "The integrator must specify the maximum ray depth")
         IN  IF IsPanic(min_depth) THEN min_depth
             ELSE IF IsPanic(max_depth) THEN max_depth
             ELSE Some(Path_new(Unwrap(min_depth), Unwrap(max_depth)))
    ELSE IF elem.type = "whitted"
    THEN LET max_depth == Expect(elem.max_depth,
                                 "The integrator must specify the maximum ray depth")
         IN  IF IsPanic(max_depth) THEN max_depth
             ELSE Some(Whitted_new(Unwrap(max_depth)))
    ELSE Panic("Unrecognized integrator type")

\* load_integrator: the integrator, or a panic.  The depths of the documents
\* are below 2^32, where `as u32` keeps the value.
load_integrator(elem) ==
    IF elem.type = "pathtracer"
    THEN LET min_depth == Expect(elem.min_depth,
                                 "The integrator must specify the minimum ray depth")
             max_depth == Expect(elem.max_depth,
                                 "The integrator must specify the maximum ray depth")
         IN  IF IsPanic(min_depth) THEN min_depth
             ELSE IF IsPanic(max_depth) THEN max_depth
             ELSE Some(Path_new(Unwrap(min_depth), Unwrap(max_depth)))
    ELSE IF elem.type = "whitted"
    THEN LET min_depth == Expect(elem.min_depth,
                                 "The integrator must specify the minimum ray depth")
         IN  IF IsPanic(min_depth) THEN min_depth
             ELSE Some(Whitted_new(Unwrap(min_depth)))
    ELSE Panic("Unrecognized integrator type")

(***************************************************************************)
(* scene.rs: load_materials                                                *)
(***************************************************************************)
\* HashMap::new, contains_key, insert (insert replaces an existing entry)
HashMap_new == <<>>
contains_key(map, k) == k \in DOMAIN map
HashMap_insert(map, k, v) ==
    [x \in (DOMAIN map) \cup {k} |-> IF x = k THEN v ELSE map[x]]

\* The material types load_materials recognizes.
MaterialTypes == {"glass", "matte", "merl", "metal", "plastic", "specular_metal"}

\* The Arc<Material> made for element i of the materials array; `arc` stands
\* for the identity of the allocation.
new_material(m, i) ==
    IF m.type = "glass"
    THEN [ty |-> "glass", arc |-> i,
          glass |-> Some(Glass_new(m.reflect, m.transmit, m.eta))]
    ELSE [ty |-> m.type, arc |-> i, glass |-> None]

\* One iteration of load_materials without the test for a name conflict.
load_materials_step_NoConflictTest(mats, m, i) ==
    IF m.type \in MaterialTypes
    THEN Some(HashMap_insert(mats, m.name, new_material(m, i)))
    ELSE Panic("Error parsing material: unrecognized type")

\* One iteration of the loop of load_materials (scene.rs 202-279): the new
\* map, or a panic.
load_materials_step(mats, m, i) ==
    IF contains_key(mats, m.name)
    THEN Panic("Error loading material: name conflicts with an existing entry")
    ELSE IF m.type \in MaterialTypes
    THEN Some(HashMap_insert(mats, m.name, new_material(m, i)))
    ELSE Panic("Error parsing material: unrecognized type")

(***************************************************************************)
(* scene.rs: load_geometry and load_sampleable_geometry                    *)
(***************************************************************************)
\* The directory of the scene file (`path`).
ScenePath == <<"scenes">>
\* Path::join for a relative file; an absolute file is kept as it is.
resolve_file(path, file) == IF file.relative THEN path \o file.path ELSE file.path

\* The models the OBJ files on disk hold.
FileModels(file) ==
    IF file = <<"scenes", "a.obj">> THEN {"m1", "m2"} ELSE {"m1"}

\* Mesh::load_obj: a fresh Arc<Mesh> for each model of the file; `load` is
\* the number of the load_obj call and stands for the allocation.
Mesh_load_obj(file, n) ==
    [model \in FileModels(file) |-> [file |-> file, model |-> model, load |-> n]]

\* The mesh branch of load_geometry with the cache test left out.
load_mesh_NoCache(meshes, loads, file_string, model) ==
    LET meshes1 == HashMap_insert(meshes, file_string,
                                  Mesh_load_obj(file_string, Len(loads) + 1))
        file_meshes == meshes1[file_string]
    IN  [geom |-> IF contains_key(file_meshes, model)
                  THEN Some([ty |-> "mesh", mesh |-> file_meshes[model]])
                  ELSE Panic("Requested model was not found"),
         meshes |-> meshes1, loads |-> Append(loads, file_string)]

\* The mesh branch of load_geometry (scene.rs 374-390): the mesh or a panic,
\* with the cache and the list of loaded files as the branch leaves them.
load_mesh(meshes, loads, file_string, model) ==
    LET miss == ~contains_key(meshes, file_string)
        meshes1 == IF miss
                   THEN HashMap_insert(meshes, file_string,
                                       Mesh_load_obj(file_string, Len(loads) + 1))
                   ELSE meshes
        loads1 == IF miss THEN Append(loads, file_string) ELSE loads
        file_meshes == meshes1[file_string]
    IN  [geom |-> IF contains_key(file_meshes, model)
                  THEN Some([ty |-> "mesh", mesh |-> file_meshes[model]])
                  ELSE Panic("Requested model was not found"),
         meshes |-> meshes1, loads |-> loads1]

\* load_geometry: the geometry or a panic, with the mesh cache and the list
\* of loaded files as the call leaves them.
load_geometry(path, meshes, loads, elem) ==
    IF elem.type \in {"sphere", "disk", "plane"}
    THEN [geom |-> Some([ty |-> elem.type]), meshes |-> meshes, loads |-> loads]
    ELSE IF elem.type = "mesh"
    THEN load_mesh(meshes, loads, resolve_file(path, elem.file), elem.model)
    ELSE [geom |-> Panic("Unrecognized geometry type"),
          meshes |-> meshes, loads |-> loads]

\* load_sampleable_geometry that accepts a plane as load_geometry does.
load_sampleable_geometry_Plane(elem) ==
    IF elem.type \in {"sphere", "disk", "plane"} THEN Some([ty |-> elem.type])
    ELSE Panic("Geometry is not sampleable and can't be used for area light geometry")

\* load_sampleable_geometry: the geometry, or a panic.
load_sampleable_geometry(elem) ==
    IF elem.type \in {"sphere", "disk"} THEN Some([ty |-> elem.type])
    ELSE Panic("Geometry is not sampleable and can't be used for area light geometry")

(***************************************************************************)
(* geometry::Instance (from the design document, section 3 and 4.2)        *)
(***************************************************************************)
\* Instance::receiver(geom, mat, transform, name)
Instance_receiver(geom, mat, transform, name) ==
    [kind |-> "receiver", geom |-> Some(geom), material |-> Some(mat),
     emission |-> None, transform |-> transform, name |-> name]
\* Instance::area_light(geom, mat, emission, transform, name)
Instance_area_light(geom, mat, emission, transform, name) ==
    [kind |-> "area_light", geom |-> Some(geom), material |-> Some(mat),
     emission |-> Some(emission), transform |-> transform, name |-> name]
\* Instance::point_light(pos, emission, name): a point light has no geometry
\* and no material; it is placed by its position.
Instance_point_light(pos, emission, name) ==
    [kind |-> "point_light", geom |-> None, material |-> None,
     emission |-> Some(emission),
     transform |-> Unwrap(AnimatedTransform_with_keyframes(
                       <<Keyframe_new(Transform_elementary("translate", pos), 0)>>)),
     name |-> name]
\* Instance::get_transform, Instance::set_transform
get_transform(gi) == gi.transform
set_transform(gi, t) == [gi EXCEPT !.transform = t]

(***************************************************************************)
(* scene.rs: Scene::load_file and load_objects as a state machine.  The    *)
(* camera, integrator and materials sections of the document are in `doc`; *)
(* the objects section is read one object at a time, and the recursion of  *)
(* load_objects into groups is the stack of frames.                        *)
(***************************************************************************)
\* geometry::BVH::new(max_leaf_size, instances, t0, t1): the BVH takes
\* ownership of the instances (the tree over their bounds is modelled with
\* the traversal, further down).
BVH_new(max_leaf_size, instances, t0, t1) ==
    [max_leaf_size |-> max_leaf_size, instances |-> instances,
     t0 |-> t0, t1 |-> t1]

\* The max_leaf_size load_file builds the BVH with.
SceneMaxLeafSize == 4
\* The time window load_file builds the BVH for.
SceneT0 == 0
SceneT1 == 2

Frame(transform, instances) == [transform |-> transform, instances |-> instances]

\* The transforms of the groups that enclose the object being read,
\* outermost first.
EnclosingGroups == [i \in 1..Len(stack) - 1 |-> Unwrap(stack[i + 1].transform)]

\* An instance together with the record of where it came from: the object
\* of the document (`src`) and the groups that enclosed it (`groups`).
Traced(inst, o) ==
    [kind |-> inst.kind, geom |-> inst.geom, material |-> inst.material,
     emission |-> inst.emission, transform |-> inst.transform,
     name |-> inst.name, src |-> o, groups |-> EnclosingGroups]

\* instances.push(inst) in the innermost active load_objects call
PushInstance(inst) ==
    [stack EXCEPT ![Len(stack)].instances = Append(@, inst)]

\* A panic with message `msg`: load_file unwinds and nothing it built is
\* left; the files that were read stay read.
Abort(msg, loads) ==
    /\ pc' = "aborted"
    /\ panic' = Some(msg)
    /\ camera' = None
    /\ integrator' = None
    /\ materials' = <<>>
    /\ mesh_cache' = <<>>
    /\ obj_loads' = loads
    /\ stack' = <<>>
    /\ scene' = None
    /\ UNCHANGED <<mat_i, nread, doc, glassVars, renderVars>>

\* let camera = load_camera(...)
LoadCamera ==
    /\ pc = "camera"
    /\ LET r == load_camera(doc.camera)
       IN  IF IsPanic(r) THEN Abort(Message(r), obj_loads)
           ELSE /\ camera' = r
                /\ pc' = "integrator"
                /\ UNCHANGED <<integrator, materials, mat_i, mesh_cache, obj_loads,
                               stack, nread, scene, doc, panic, glassVars, renderVars>>

\* let integrator = load_integrator(...)
LoadIntegrator ==
    /\ pc = "integrator"
    /\ LET r == load_integrator(doc.integrator)
       IN  IF IsPanic(r) THEN Abort(Message(r), obj_loads)
           ELSE /\ integrator' = r
                /\ pc' = "materials"
                /\ UNCHANGED <<camera, materials, mat_i, mesh_cache, obj_loads,
                               stack, nread, scene, doc, panic, glassVars, renderVars>>

\* let materials = load_materials(...): one iteration of its loop over the
\* materials array.
LoadMaterial ==
    /\ pc = "materials"
    /\ IsSome(as_array(doc.materials))
    /\ mat_i <= Len(Unwrap(as_array(doc.materials)))
    /\ LET mat_vec == Unwrap(as_array(doc.materials))
           r == load_materials_step(materials, mat_vec[mat_i], mat_i)
       IN  IF IsPanic(r) THEN Abort(Message(r), obj_loads)
           ELSE /\ materials' = Unwrap(r)
                /\ mat_i' = mat_i + 1
                /\ UNCHANGED <<pc, camera, integrator, mesh_cache, obj_loads,
                               stack, nread, scene, doc, panic, glassVars, renderVars>>

\* load_materials returns (or panics because the materials are no array);
\* then let mut mesh_cache = HashMap::new() and the call of load_objects on
\* the objects array.
LoadMaterialsReturn ==
    /\ pc = "materials"
    /\ LET mat_vec == Expect(as_array(doc.materials),
                             "The materials must be an array of materials used")
       IN  IF IsPanic(mat_vec) THEN Abort(Message(mat_vec), obj_loads)
           ELSE /\ mat_i > Len(Unwrap(mat_vec))
                /\ mesh_cache' = HashMap_new
                /\ stack' = <<Frame(None, <<>>)>>
                /\ pc' = "objects"
                /\ UNCHANGED <<camera, integrator, materials, mat_i, obj_loads,
                               nread, scene, doc, panic, glassVars, renderVars>>

\* panic!("No transform specified for object {}", name)
NoTransform == Panic("No transform specified for object")

\* The next object of the array a load_objects call iterates over.
ReadsObject == pc = "objects" /\ nread < MaxObjects

\* The lookup of a material that falls back on some material of the map
\* when the name is not in it.
get_material_OrAny(mat_name) ==
    IF contains_key(materials, mat_name) THEN Some(materials[mat_name])
    ELSE Some(materials[CHOOSE n \in DOMAIN materials : TRUE])

\* materials.get(mat_name).expect(...).clone()
get_material(mat_name) ==
    IF contains_key(materials, mat_name) THEN Some(materials[mat_name])
    ELSE Panic("Material was not found in the material list")

\* One iteration of load_objects on an object of type "emitter".
LoadEmitter(o) ==
    /\ ReadsObject
    /\ o.type = "emitter"
    /\ LET name == nread + 1
           transform == load_animated_transform(o, NoTransform)
           mat == get_material(o.material)
           geom == load_sampleable_geometry(o.geometry)
           failure == IF IsPanic(transform) THEN transform
                      ELSE IF o.emitter = "point" THEN None
                      ELSE IF o.emitter # "area"
                      THEN Panic("Invalid emitter type specified")
                      ELSE IF IsPanic(mat) THEN mat
                      ELSE IF IsPanic(geom) THEN geom
                      ELSE None
           inst == IF o.emitter = "point"
                   THEN Instance_point_light(o.position, o.emission, name)
                   ELSE Instance_area_light(Unwrap(geom), Unwrap(mat), o.emission,
                                            Unwrap(transform), name)
       IN  IF IsPanic(failure) THEN Abort(Message(failure), obj_loads)
           ELSE /\ stack' = PushInstance(Traced(inst, o))
                /\ nread' = nread + 1
                /\ UNCHANGED <<pc, camera, integrator, materials, mat_i, mesh_cache,
                               obj_loads, scene, doc, panic, glassVars, renderVars>>

\* One iteration of load_objects on an object of type "receiver".
LoadReceiver(o) ==
    /\ ReadsObject
    /\ o.type = "receiver"
    /\ LET name == nread + 1
           transform == load_animated_transform(o, NoTransform)
           mat == get_material(o.material)
           g == load_geometry(ScenePath, mesh_cache, obj_loads, o.geometry)
       IN  IF IsPanic(transform) THEN Abort(Message(transform), obj_loads)
           ELSE IF IsPanic(mat) THEN Abort(Message(mat), obj_loads)
           ELSE IF IsPanic(g.geom) THEN Abort(Message(g.geom), g.loads)
           ELSE /\ stack' = PushInstance(Traced(
                         Instance_receiver(Unwrap(g.geom), Unwrap(mat),
                                           Unwrap(transform), name), o))
                /\ mesh_cache' = g.meshes
                /\ obj_loads' = g.loads
                /\ nread' = nread + 1
                /\ UNCHANGED <<pc, camera, integrator, materials, mat_i, scene, doc,
                               panic, glassVars, renderVars>>

\* One iteration of load_objects on an object of type "group", up to the
\* recursive call of load_objects on the group's objects.
LoadGroup(o) ==
    /\ ReadsObject
    /\ o.type = "group"
    /\ Len(stack) <= MaxDepth
    /\ LET transform == load_animated_transform(o, NoTransform)
       IN  IF IsPanic(transform) THEN Abort(Message(transform), obj_loads)
           ELSE /\ stack' = Append(stack, Frame(transform, <<>>))
                /\ nread' = nread + 1
                /\ UNCHANGED <<pc, camera, integrator, materials, mat_i, mesh_cache,
                               obj_loads, scene, doc, panic, glassVars, renderVars>>

\* One iteration of load_objects on an object of any other type.
LoadUnrecognized(o) ==
    /\ ReadsObject
    /\ o.type \notin {"emitter", "receiver", "group"}
    /\ LET transform == load_animated_transform(o, NoTransform)
       IN  Abort(IF IsPanic(transform) THEN Message(transform)
                 ELSE "Error parsing object: unrecognized type", obj_loads)

\* The group branch of load_objects with the product the other way round.
group_instance_Right(transform, gi) ==
    set_transform(gi, AnimatedTransform_mul(get_transform(gi), transform))

\* The group branch of load_objects (scene.rs 341-347) for one instance of the group.
group_instance(transform, gi) ==
    LET t == get_transform(gi)
    IN  set_transform(gi, AnimatedTransform_mul(transform, t))

\* The group branch of load_objects that puts the instances of the group
\* in front of the instances the calling load_objects already has.
EndGroup_Front ==
    /\ pc = "objects"
    /\ Len(stack) > 1
    /\ LET n == Len(stack)
           transform == Unwrap(stack[n].transform)
           group_instances == stack[n].instances
           moved == [i \in 1..Len(group_instances) |->
                        group_instance(transform, group_instances[i])]
       IN  stack' = [SubSeq(stack, 1, n - 1) EXCEPT ![n - 1].instances = moved \o @]
    /\ UNCHANGED <<pc, camera, integrator, materials, mat_i, mesh_cache, obj_loads,
                   nread, scene, doc, panic, glassVars, renderVars>>

\* The recursive call of load_objects on a group returns: the rest of the
\* group branch of the calling load_objects.
EndGroup ==
    /\ pc = "objects"
    /\ Len(stack) > 1
    /\ LET n == Len(stack)
           transform == Unwrap(stack[n].transform)
           group_instances == stack[n].instances
           moved == [i \in 1..Len(group_instances) |->
                        group_instance(transform, group_instances[i])]
       IN  stack' = [SubSeq(stack, 1, n - 1) EXCEPT ![n - 1].instances = @ \o moved]
    /\ UNCHANGED <<pc, camera, integrator, materials, mat_i, mesh_cache, obj_loads,
                   nread, scene, doc, panic, glassVars, renderVars>>

\* load_file with the assertion on the instances left out.
assert_instances_NoAssert(instances) == TRUE

\* assert!(!instances.is_empty(), ...) of load_file: whether it passes.
assert_instances(instances) == ~(Len(instances) = 0)

\* The outermost load_objects returns: the rest of load_file.
Finish ==
    /\ pc = "objects"
    /\ Len(stack) = 1
    /\ LET instances == stack[1].instances
       IN  IF ~assert_instances(instances)
           THEN Abort("Aborting: the scene does not have any objects!", obj_loads)
           ELSE /\ scene' = Some([camera |-> Unwrap(camera),
                                  bvh |-> BVH_new(SceneMaxLeafSize, instances, SceneT0, SceneT1),
                                  integrator |-> Unwrap(integrator)])
                /\ stack' = <<>>
                /\ pc' = "done"
                /\ UNCHANGED <<camera, integrator, materials, mat_i, mesh_cache,
                               obj_loads, nread, doc, panic, glassVars, renderVars>>

(***************************************************************************)
(* Scene documents                                                         *)
(***************************************************************************)
\* An entry of a "transform" array and a keyframe of a "keyframes" array.
XfEntry(ty, arg) == [type |-> ty, arg |-> arg]
KfEntry(time, entries) == [time |-> time, transform |-> JArray(entries)]
T1 == XfEntry("translate", 1)
T2 == XfEntry("scale", 2)
T3 == XfEntry("rotate_x", 3)
TBad == XfEntry("shear", 0)

\* How an object or the camera gives its transform.
Static(entries) == [keyframes |-> None, transform |-> Some(JArray(entries))]
Animated(kfs) == [keyframes |-> Some(JArray(kfs)), transform |-> None]
Both(kfs, entries) ==
    [keyframes |-> Some(JArray(kfs)), transform |-> Some(JArray(entries))]
Neither == [keyframes |-> None, transform |-> None]

\* Objects of the "objects" array.
Receiver(xf, mat, geom) ==
    [type |-> "receiver", keyframes |-> xf.keyframes, transform |-> xf.transform,
     material |-> mat, geometry |-> geom]
AreaLight(xf, mat, geom) ==
    [type |-> "emitter", emitter |-> "area", emission |-> <<1, 1, 1>>,
     keyframes |-> xf.keyframes, transform |-> xf.transform,
     material |-> mat, geometry |-> geom]
PointLight(xf, pos) ==
    [type |-> "emitter", emitter |-> "point", emission |-> <<1, 1, 1>>,
     keyframes |-> xf.keyframes, transform |-> xf.transform, position |-> pos]
Group(xf) ==
    [type |-> "group", keyframes |-> xf.keyframes, transform |-> xf.transform]
Geom(ty) == [type |-> ty]
MeshGeom(relative, path, model) ==
    [type |-> "mesh", file |-> [relative |-> relative, path |-> path],
     model |-> model]

\* Materials, cameras and integrators of a document.
Matte(name) == [name |-> name, type |-> "matte"]
GlassDoc(name, reflect, transmit) ==
    [name |-> name, type |-> "glass", reflect |-> reflect, transmit |-> transmit,
     eta |-> 1]
CameraDoc(xf, look_at) ==
    [fov |-> 40, keyframes |-> xf.keyframes, transform |-> xf.transform,
     look_at |-> look_at]
PathDoc(min_depth, max_depth) ==
    [type |-> "pathtracer", min_depth |-> Some(min_depth),
     max_depth |-> Some(max_depth)]
WhittedDoc(min_depth) ==
    [type |-> "whitted", min_depth |-> Some(min_depth), max_depth |-> None]
Document(cam, int, mats) ==
    [camera |-> cam, integrator |-> int, materials |-> JArray(mats)]

\* The load has not started: load_file is about to load the camera.
InitLoad(docs) ==
    /\ doc \in docs
    /\ pc = "camera"
    /\ camera = None
    /\ integrator = None
    /\ materials = <<>>
    /\ mat_i = 1
    /\ mesh_cache = <<>>
    /\ obj_loads = <<>>
    /\ stack = <<>>
    /\ nread = 0
    /\ scene = None
    /\ panic = None
    /\ glass_in = <<>>
    /\ glass = None
    /\ bsdf = None
    /\ bsdf_out = None
    /\ RenderIdle

NextLoad(objs) ==
    \/ LoadCamera
    \/ LoadIntegrator
    \/ LoadMaterial
    \/ LoadMaterialsReturn
    \/ \E o \in objs : LoadEmitter(o)
    \/ \E o \in objs : LoadReceiver(o)
    \/ \E o \in objs : LoadGroup(o)
    \/ \E o \in objs : LoadUnrecognized(o)
    \/ EndGroup
    \/ Finish

(***************************************************************************)
(* Specification of load_objects: groups, transforms and materials         *)
(***************************************************************************)
ObjectsDocs ==
    {Document(CameraDoc(Static(<<T1>>), None), PathDoc(1, 2), mats) :
        mats \in {<<Matte("m1")>>,
                  <<Matte("m1"), GlassDoc("m2", Black, <<1, 1, 1>>)>>}}
ObjectsXf == {Static(<<T1>>), Static(<<T2, T3>>),
              Animated(<<KfEntry(0, <<T1>>), KfEntry(1, <<T2>>)>>)}
ObjectsObjs ==
    {Receiver(xf, m, Geom("sphere")) : xf \in ObjectsXf, m \in {"m1", "m2"}}
    \cup {Receiver(Neither, "m1", Geom("sphere"))}
    \cup {AreaLight(Static(<<T1>>), m, Geom(g)) : m \in {"m1", "m2"},
                                                   g \in {"disk", "plane"}}
    \cup {PointLight(xf, 1) : xf \in {Static(<<T1>>), Static(<<T2, T3>>)}}
    \cup {Group(xf) : xf \in ObjectsXf}
    \cup {[type |-> "camera", keyframes |-> None,
           transform |-> Some(JArray(<<T1>>))]}

SpecObjects == InitLoad(ObjectsDocs) /\ [][NextLoad(ObjectsObjs)]_vars

(***************************************************************************)
(* Claims about load_file and load_objects                                 *)
(***************************************************************************)
\* The instances load_objects has returned to load_file: those of the
\* outermost call while it runs, then those the scene's BVH owns.
Returned ==
    IF IsSome(scene) THEN Unwrap(scene).bvh.instances
    ELSE IF Len(stack) >= 1 THEN stack[1].instances
    ELSE <<>>
ReturnedSet == {Returned[i] : i \in 1..Len(Returned)}

NoObjectsMsg == "Aborting: the scene does not have any objects!"

\* C3: load_file never builds a BVH, and never returns a Scene, over an empty
\* instance list: when the outermost load_objects returns no instance the
\* load panics and no scene exists; every scene holds at least one instance.
C3_NoEmptyScene ==
    /\ [](IsSome(scene) => Len(Unwrap(scene).bvh.instances) >= 1)
    /\ [][(pc = "objects" /\ Len(stack) = 1 /\ stack[1].instances = <<>>)
          => (pc' # "done" /\ scene' = None)]_vars
    /\ [][(pc = "objects" /\ pc' = "done")
          => (Len(stack) = 1 /\ Len(stack[1].instances) >= 1
              /\ Unwrap(scene').bvh.instances = stack[1].instances)]_vars
    /\ [](pc = "done" <=> IsSome(scene))

\* C3 witness: the objects array held only groups, all of them empty, and
\* the load was aborted for having no objects.
C3_Witness ==
    pc = "aborted" /\ panic = Some(NoObjectsMsg) /\ nread >= 2 /\ scene = None

\* The product of the animated transforms ts[i..], leftmost first.
RECURSIVE ProductFrom(_, _)
ProductFrom(ts, i) ==
    IF i > Len(ts) THEN <<>>
    ELSE AnimatedTransform_mul(ts[i], ProductFrom(ts, i + 1))

\* The transform the object gave (its "keyframes" or "transform").
OwnTransform(o) == Unwrap(load_animated_transform(o, NoTransform))

\* The original statement of C4: for every object nested in groups, the
\* returned instance's transform is the product of the enclosing groups'
\* transforms, outermost first, times the transform the object gave.
C4_Original ==
    \A gi \in ReturnedSet :
        Len(gi.groups) >= 1 =>
            gi.transform = AnimatedTransform_mul(ProductFrom(gi.groups, 1),
                                                 OwnTransform(gi.src))

\* The transform an instance is constructed with: the one the object gave
\* for a receiver or an area light, the translation to its position for a
\* point light.
ConstructedTransform(gi) ==
    IF gi.kind = "point_light"
    THEN <<<<Keyframe_new(<<[op |-> "translate", arg |-> gi.src.position]>>, 0)>>>>
    ELSE OwnTransform(gi.src)

\* C4 (amended): the transform of an instance that a load_objects call at
\* nesting depth k has in its list is the product of the transforms of the
\* groups that enclose the object below depth k, outermost first, times the
\* transform the instance was constructed with, which is the transform the
\* object gave for a receiver or an area light and the translation to its
\* position for a point light; in the list load_file gets, that is the
\* product of all enclosing groups, each applied exactly once.
C4_GroupTransforms ==
    /\ \A k \in 1..Len(stack) : \A i \in 1..Len(stack[k].instances) :
          LET gi == stack[k].instances[i]
          IN  /\ Len(gi.groups) >= k - 1
              /\ gi.transform =
                   AnimatedTransform_mul(ProductFrom(gi.groups, k),
                                         ConstructedTransform(gi))
    /\ \A gi \in ReturnedSet :
          /\ gi.transform = AnimatedTransform_mul(ProductFrom(gi.groups, 1),
                                                  ConstructedTransform(gi))
          /\ Len(gi.transform) = Len(gi.groups) + 1

\* C4 witness: the scene holds a receiver that was nested two groups deep,
\* in groups with different transforms.
C4_Witness ==
    /\ IsSome(scene)
    /\ \E gi \in ReturnedSet :
          /\ gi.kind = "receiver"
          /\ Len(gi.groups) = 2
          /\ gi.groups[1] # gi.groups[2]
          /\ gi.groups[2] # OwnTransform(gi.src)

\* C5: every receiver and area light load_objects has created holds the
\* material the materials map has under the name the object gave, and no
\* instance was created for an object naming a material the map lacks: such
\* an object ends the load with a panic.
C5_MaterialsResolve ==
    /\ \A k \in 1..Len(stack) : \A i \in 1..Len(stack[k].instances) :
          LET gi == stack[k].instances[i]
          IN  gi.kind \in {"receiver", "area_light"} =>
                 /\ gi.src.material \in DOMAIN materials
                 /\ gi.material = Some(materials[gi.src.material])
    /\ \A gi \in ReturnedSet :
          gi.kind \in {"receiver", "area_light"} =>
             /\ gi.src.material \in DOMAIN materials
             /\ gi.material = Some(materials[gi.src.material])
    /\ (pc = "aborted" /\ panic = Some("Material was not found in the material list"))
          => scene = None

\* C5 witness: a scene with a receiver and an area light whose materials
\* were found, out of a map with two materials.
C5_Witness ==
    /\ IsSome(scene)
    /\ Cardinality(DOMAIN materials) = 2
    /\ \E a \in ReturnedSet, b \in ReturnedSet :
          /\ a.kind = "receiver" /\ b.kind = "area_light"
          /\ a.src.material # b.src.material

(***************************************************************************)
(* Specification of load_materials: every materials array of at most       *)
(* MaxMats elements over three names and three types                       *)
(***************************************************************************)
MaterialElems ==
    {Matte(n) : n \in {"m1", "m2", "m3"}}
    \cup {GlassDoc(n, <<1, 1, 1>>, Black) : n \in {"m1", "m2", "m3"}}
    \cup {[name |-> n, type |-> "wood"] : n \in {"m1", "m2", "m3"}}
MaterialsDocs ==
    {Document(CameraDoc(Static(<<T1>>), None), WhittedDoc(1), mats) :
        mats \in UNION {[1..k -> MaterialElems] : k \in 0..MaxMats}}
    \cup {[camera |-> CameraDoc(Static(<<T1>>), None),
           integrator |-> WhittedDoc(1), materials |-> JString("none")]}

NextMaterials ==
    \/ LoadCamera
    \/ LoadIntegrator
    \/ LoadMaterial
    \/ LoadMaterialsReturn
SpecMaterials == InitLoad(MaterialsDocs) /\ [][NextMaterials]_vars

ConflictMsg == "Error loading material: name conflicts with an existing entry"
\* The materials array of the document, and whether load_materials has
\* returned its map.
MatVec == IF doc.materials.json = "array" THEN doc.materials.items ELSE <<>>
MaterialsReturned == pc \in {"objects", "done"}

\* C6: material names are unique.  While load_materials runs, the map holds
\* one entry for each element processed so far, each under its own name and
\* made from that element; an element whose name is already in the map ends
\* the load with the name-conflict panic; no step of the loop replaces or
\* removes an entry; and the map load_materials returns has exactly one
\* entry for each element of the array.
C6_UniqueMaterialNames ==
    /\ []((pc = "materials" \/ MaterialsReturned) =>
            /\ mat_i <= Len(MatVec) + 1
            /\ Cardinality(DOMAIN materials) = mat_i - 1
            /\ \A j \in 1..mat_i - 1 :
                  /\ MatVec[j].name \in DOMAIN materials
                  /\ materials[MatVec[j].name].arc = j
                  /\ materials[MatVec[j].name].ty = MatVec[j].type)
    /\ [](MaterialsReturned =>
            /\ Cardinality(DOMAIN materials) = Len(MatVec)
            /\ \A j, k \in 1..Len(MatVec) :
                  MatVec[j].name = MatVec[k].name => j = k)
    /\ [][(pc = "materials" /\ mat_i <= Len(MatVec)
           /\ MatVec[mat_i].name \in DOMAIN materials)
          => (pc' = "aborted" /\ panic' = Some(ConflictMsg))]_vars
    /\ [][(pc = "materials" /\ pc' # "aborted")
          => \A n \in DOMAIN materials :
                n \in DOMAIN materials' /\ materials'[n] = materials[n]]_vars

\* C6 witness: the third element of a materials array repeated an earlier
\* name and the load was aborted for the conflict.
C6_Witness ==
    /\ pc = "aborted" /\ panic = Some(ConflictMsg)
    /\ mat_i = 3
    /\ MatVec[3].name = MatVec[1].name
    /\ MatVec[3].type # MatVec[1].type

(***************************************************************************)
(* Specification of load_geometry and the mesh cache: receivers that name  *)
(* OBJ files by relative and by absolute paths                             *)
(***************************************************************************)
MeshDocs == {Document(CameraDoc(Static(<<T1>>), None), WhittedDoc(1), <<Matte("m1")>>)}
MeshFiles == {[relative |-> TRUE, path |-> <<"a.obj">>],
              [relative |-> FALSE, path |-> <<"scenes", "a.obj">>],
              [relative |-> TRUE, path |-> <<"b.obj">>]}
MeshObjs ==
    {Receiver(Static(<<T1>>), "m1", [type |-> "mesh", file |-> f, model |-> m]) :
        f \in MeshFiles, m \in {"m1", "m2"}}
    \cup {Receiver(Static(<<T1>>), "m1", Geom(g)) : g \in {"sphere", "cube"}}
    \cup {Group(Static(<<T2>>))}

NextMesh ==
    \/ LoadCamera
    \/ LoadIntegrator
    \/ LoadMaterial
    \/ LoadMaterialsReturn
    \/ \E o \in MeshObjs : LoadReceiver(o)
    \/ \E o \in MeshObjs : LoadGroup(o)
    \/ EndGroup
    \/ Finish
SpecMesh == InitLoad(MeshDocs) /\ [][NextMesh]_vars

\* Every instance that exists: in the list of an active load_objects call
\* or in the scene.
Instances ==
    ReturnedSet
    \cup UNION {{stack[k].instances[i] : i \in 1..Len(stack[k].instances)} :
                    k \in 1..Len(stack)}
MeshInstances == {gi \in Instances : IsSome(gi.geom) /\ Unwrap(gi.geom).ty = "mesh"}
FileOf(gi) == resolve_file(ScenePath, gi.src.geometry.file)

\* C7: over the load_geometry calls of one load, Mesh::load_obj is called at
\* most once for each file path: a request for a path not in the cache loads
\* the file and inserts it, a request for a cached path loads nothing, and
\* no entry of the cache is ever replaced or removed; every instance holds
\* the mesh the cache has for its file and model, so two instances naming
\* the same file and model share one mesh.
C7_MeshLoadedOnce ==
    /\ [](\A i, j \in 1..Len(obj_loads) : obj_loads[i] = obj_loads[j] => i = j)
    /\ [](pc # "aborted" =>
            DOMAIN mesh_cache = {obj_loads[i] : i \in 1..Len(obj_loads)})
    /\ [](\A gi \in MeshInstances :
            /\ FileOf(gi) \in DOMAIN mesh_cache
            /\ Unwrap(gi.geom).mesh = mesh_cache[FileOf(gi)][gi.src.geometry.model])
    /\ [](\A a, b \in MeshInstances :
            (FileOf(a) = FileOf(b) /\ a.src.geometry.model = b.src.geometry.model)
                => Unwrap(a.geom).mesh = Unwrap(b.geom).mesh)
    /\ [][pc' # "aborted" =>
            \A f \in DOMAIN mesh_cache :
                f \in DOMAIN mesh_cache' /\ mesh_cache'[f] = mesh_cache[f]]_vars
    /\ [][\/ obj_loads' = obj_loads
          \/ \E f \in {resolve_file(ScenePath, x) : x \in MeshFiles} :
                /\ f \notin DOMAIN mesh_cache
                /\ obj_loads' = Append(obj_loads, f)]_vars

\* C7 witness: the scene holds two instances that name the same file, one by
\* its relative and one by its absolute path, and the same model; a third
\* names another model of that file; the file was loaded once.
C7_Witness ==
    /\ IsSome(scene)
    /\ Len(obj_loads) = 1
    /\ \E a, b, c \in MeshInstances :
          /\ a.src.geometry.file # b.src.geometry.file
          /\ a.src.geometry.model = b.src.geometry.model
          /\ a.name # b.name
          /\ c.src.geometry.model # a.src.geometry.model

(***************************************************************************)
(* Specification of load_keyframes: the camera and the objects give every  *)
(* "keyframes" array of at most MaxKeys keyframes with times 0..MaxTime    *)
(***************************************************************************)
KfElems == {KfEntry(t, <<T1>>) : t \in 0..MaxTime}
KfArrays == UNION {[1..k -> KfElems] : k \in 0..MaxKeys}
KeyframesXf ==
    {Animated(kfs) : kfs \in KfArrays}
    \cup {Static(<<T1>>), Static(<<T1, T2>>), Static(<<TBad>>), Neither,
          Animated(<<KfEntry(0, <<T2, T3>>), KfEntry(1, <<T2, TBad>>)>>),
          Both(<<KfEntry(0, <<T2>>)>>, <<TBad>>),
          [keyframes |-> Some(JString("none")), transform |-> None],
          [keyframes |-> None, transform |-> Some(JString("none"))]}
KeyframesDocs ==
    {Document(CameraDoc(xf, None), WhittedDoc(1), <<Matte("m1")>>) : xf \in KeyframesXf}
    \cup {Document(CameraDoc(Neither, Some(1)), WhittedDoc(1), <<Matte("m1")>>)}
KeyframesObjs ==
    {Receiver(xf, "m1", Geom("sphere")) : xf \in KeyframesXf}
    \cup {Group(Animated(<<KfEntry(0, <<T1>>), KfEntry(1, <<T2>>)>>))}

NextKeyframes ==
    \/ LoadCamera
    \/ LoadIntegrator
    \/ LoadMaterial
    \/ LoadMaterialsReturn
    \/ \E o \in KeyframesObjs : LoadReceiver(o)
    \/ \E o \in KeyframesObjs : LoadGroup(o)
    \/ EndGroup
    \/ Finish
SpecKeyframes == InitLoad(KeyframesDocs) /\ [][NextKeyframes]_vars

\* The animated transforms the loader has handed out: to the instances, to
\* the groups being read and to the camera.
HandedOut ==
    {gi.transform : gi \in Instances}
    \cup {Unwrap(stack[k].transform) : k \in 2..Len(stack)}
    \cup (IF IsSome(camera) THEN {Unwrap(camera).transform} ELSE {})
    \cup (IF IsSome(scene) THEN {Unwrap(scene).camera.transform} ELSE {})
TimesOf(keyframes) == [i \in 1..Len(keyframes) |-> keyframes[i].time]
DocTimes(o) == TimesOf(Unwrap(o.keyframes).items)

Box(x0, x1, y0, y1) == [x0 |-> x0, x1 |-> x1, y0 |-> y0, y1 |-> y1]
RenderInstance(box, move) == [box |-> box, move |-> move]
Ray(o, d, max_t, time) == [o |-> o, d |-> d, min_t |-> 0, max_t |-> max_t, time |-> time]
\* f32::INFINITY as the max_t of a ray
INFINITY == 1000

\* The least and the greatest of a set of numbers.
Least(S) == CHOOSE x \in S : \A y \in S : x <= y
Greatest(S) == CHOOSE x \in S : \A y \in S : x >= y

\* The geometry of an instance in world space at a time: the instance's
\* transform is evaluated at exactly that time.
world_geometry(inst, time) ==
    Box(inst.box.x0 + inst.move * time, inst.box.x1 + inst.move * time,
        inst.box.y0, inst.box.y1)
BBox_union(a, b) ==
    Box(Least({a.x0, b.x0}), Greatest({a.x1, b.x1}),
        Least({a.y0, b.y0}), Greatest({a.y1, b.y1}))
\* Instance::bounds(t0, t1): the union of the bounds at the two ends of the
\* time window.
bounds(inst, t0, t1) == BBox_union(world_geometry(inst, t0), world_geometry(inst, t1))

\* The distances at which the line of the ray enters and leaves the box, or
\* None when the line passes beside the box.
slab(box, ray) ==
    IF ray.d[1] # 0
    THEN IF ray.o[2] < box.y0 \/ ray.o[2] > box.y1 THEN None
         ELSE IF ray.d[1] > 0 THEN Some(<<box.x0 - ray.o[1], box.x1 - ray.o[1]>>)
         ELSE Some(<<ray.o[1] - box.x1, ray.o[1] - box.x0>>)
    ELSE IF ray.o[1] < box.x0 \/ ray.o[1] > box.x1 THEN None
         ELSE IF ray.d[2] > 0 THEN Some(<<box.y0 - ray.o[2], box.y1 - ray.o[2]>>)
         ELSE Some(<<ray.o[2] - box.y1, ray.o[2] - box.y0>>)

\* BBox::fast_intersect: whether the ray meets the box within its range.
bbox_intersect(box, ray) ==
    LET s == slab(box, ray)
    IN  IsSome(s) /\ Unwrap(s)[1] <= ray.max_t /\ Unwrap(s)[2] >= ray.min_t

\* Instance::intersect: the hit of the ray on the surface of instance i, at
\* the ray's time: the nearest distance t inside (min_t, max_t) at which the
\* ray crosses the surface, with the instance as back-reference.
Instance_intersect(insts, i, ray) ==
    LET s == slab(world_geometry(insts[i], ray.time), ray)
        t == IF Unwrap(s)[1] > ray.min_t THEN Unwrap(s)[1] ELSE Unwrap(s)[2]
    IN  IF IsSome(s) /\ t > ray.min_t /\ t < ray.max_t
        THEN Some([t |-> t, instance |-> i]) ELSE None

RECURSIVE bounds_of(_, _, _, _)
bounds_of(insts, items, t0, t1) ==
    IF Len(items) = 1 THEN bounds(insts[items[1]], t0, t1)
    ELSE BBox_union(bounds(insts[items[1]], t0, t1),
                    bounds_of(insts, Tail(items), t0, t1))

\* Twice the centroid of a box along an axis (1 = x, 2 = y).
centroid2(box, axis) == IF axis = 1 THEN box.x0 + box.x1 ELSE box.y0 + box.y1

\* BVH::new, the recursive build over the instances `items` (indices into
\* `insts`): a leaf when there are at most max_leaf_size of them or their
\* centroids coincide; else the instances are split at the spatial median of
\* their centroids along the axis on which the centroids spread most.
RECURSIVE BVH_build(_, _, _, _, _)
BVH_build(max_leaf_size, insts, items, t0, t1) ==
    LET bound == bounds_of(insts, items, t0, t1)
        c(axis) == {centroid2(bounds(insts[items[k]], t0, t1), axis) :
                       k \in 1..Len(items)}
        extent(axis) == Greatest(c(axis)) - Least(c(axis))
        axis == IF extent(1) >= extent(2) THEN 1 ELSE 2
        mid2 == Greatest(c(axis)) + Least(c(axis))
        InLeft(i) == 2 * centroid2(bounds(insts[i], t0, t1), axis) < mid2
        InRight(i) == ~InLeft(i)
    IN  IF Len(items) <= max_leaf_size \/ extent(axis) = 0
        THEN [leaf |-> TRUE, bound |-> bound, items |-> items]
        ELSE [leaf |-> FALSE, bound |-> bound, axis |-> axis,
              left |-> BVH_build(max_leaf_size, insts, SelectSeq(items, InLeft), t0, t1),
              right |-> BVH_build(max_leaf_size, insts, SelectSeq(items, InRight), t0, t1)]

\* BVH::new(max_leaf_size, instances, t0, t1) for render-time instances.
BVH_tree(max_leaf_size, insts, t0, t1) ==
    [max_leaf_size |-> max_leaf_size, instances |-> insts, t0 |-> t0, t1 |-> t1,
     root |-> BVH_build(max_leaf_size, insts, [k \in 1..Len(insts) |-> k], t0, t1)]

(***************************************************************************)
(* BVH::intersect: the traversal with an explicit stack.  A traversal is   *)
(* [stack, pending, ray, hit]: the nodes still to visit, the instances of  *)
(* the current leaf still to test, the caller's ray and the closest hit.   *)
(***************************************************************************)
Traversal(bvh, ray) ==
    [stack |-> <<bvh.root>>, pending |-> <<>>, ray |-> ray, hit |-> None]
TraversalDone(tr) == tr.stack = <<>> /\ tr.pending = <<>>

\* The closure of Scene::intersect that tests the instance against a fresh
\* ray from the same origin, without the range the traversal has shrunk.
intersect_closure_FreshRay(insts, i, r) ==
    Instance_intersect(insts, i, [r EXCEPT !.max_t = INFINITY])

\* The closure Scene::intersect hands to the BVH: |r, i| i.intersect(r)
intersect_closure(insts, i, r) == Instance_intersect(insts, i, r)

\* One step of BVH::intersect(ray, f), f being the closure of
\* Scene::intersect: test the next instance of the current leaf with f,
\* keeping the closest hit and shrinking the ray; or pop a node, prune it if
\* the ray misses its bound, open it if it is a leaf, and push its children,
\* the nearer one on top, if it is not.
traversal_step(bvh, tr) ==
    IF tr.pending # <<>>
    THEN LET h == intersect_closure(bvh.instances, Head(tr.pending), tr.ray)
         IN  [tr EXCEPT !.pending = Tail(@),
                        !.ray.max_t = IF IsSome(h) THEN Unwrap(h).t ELSE @,
                        !.hit = IF IsSome(h) THEN h ELSE @]
    ELSE LET node == Head(tr.stack)
             rest == Tail(tr.stack)
         IN  IF ~bbox_intersect(node.bound, tr.ray) THEN [tr EXCEPT !.stack = rest]
             ELSE IF node.leaf THEN [tr EXCEPT !.stack = rest, !.pending = node.items]
             ELSE IF tr.ray.d[node.axis] < 0
             THEN [tr EXCEPT !.stack = <<node.right, node.left>> \o rest]
             ELSE [tr EXCEPT !.stack = <<node.left, node.right>> \o rest]

\* The steps of the traversal until the stack is empty.
RECURSIVE traverse(_, _)
traverse(bvh, tr) ==
    IF TraversalDone(tr) THEN tr ELSE traverse(bvh, traversal_step(bvh, tr))

\* BVH::intersect(ray, f): the closest hit, and the ray as the call leaves it.
BVH_intersect(bvh, ray) ==
    LET end == traverse(bvh, Traversal(bvh, ray))
    IN  [hit |-> end.hit, ray |-> end.ray]

\* The steps of BVH::occluded: the same traversal, ended by the first hit.
RECURSIVE traverse_occluded(_, _)
traverse_occluded(bvh, tr) ==
    IF IsSome(tr.hit) THEN TRUE
    ELSE IF TraversalDone(tr) THEN FALSE
    ELSE traverse_occluded(bvh, traversal_step(bvh, tr))

\* BVH::occluded(ray): whether anything is hit within the range of the ray.
BVH_occluded(bvh, ray) == traverse_occluded(bvh, Traversal(bvh, ray))

\* Scene::intersect that takes a miss for a failure: the hit it returns for a
\* ray that escapes the scene is a panic.
Scene_intersect_ExpectHit(self, ray) ==
    LET r == BVH_intersect(self.bvh, ray)
    IN  [hit |-> Expect(r.hit, "the ray must hit the scene"), ray |-> r.ray]

\* Scene::intersect: self.bvh.intersect(ray, |r, i| i.intersect(r))
Scene_intersect(self, ray) == BVH_intersect(self.bvh, ray)

\* The Scene that load_file returns, with the instances as the renderer sees
\* them.
RenderScene(max_leaf_size, insts) ==
    [camera |-> Camera_new(<<>>, 1),
     bvh |-> BVH_tree(max_leaf_size, insts, SceneT0, SceneT1),
     integrator |-> Path_new(1, 1)]

(***************************************************************************)
(* Nearest-hit queries over bounded scenes: the same instances under BVHs  *)
(* built with different max_leaf_size.                                     *)
(***************************************************************************)
\* The instances the scenes are made of: boxes that share a face coordinate,
\* a box behind them, and a flat box that moves along x during the window.
Shapes ==
    <<RenderInstance(Box(1, 2, 1, 2), 0),
      RenderInstance(Box(1, 3, 2, 3), 0),
      RenderInstance(Box(4, 5, 1, 3), 0),
      RenderInstance(Box(3, 3, 1, 1), 1)>>

\* The rays: along each axis from outside the scene, at each end and the
\* middle of the time window, and rays with a short range.
Rays ==
    {Ray(<<0, y>>, <<1, 0>>, INFINITY, time) : y \in {1, 2}, time \in {0, 2}}
    \cup {Ray(<<6, y>>, <<-1, 0>>, INFINITY, time) : y \in {1, 3}, time \in {0, 1}}
    \cup {Ray(<<x, 0>>, <<0, 1>>, INFINITY, 0) : x \in {1, 3}}
    \cup {Ray(<<x, 4>>, <<0, -1>>, INFINITY, 2) : x \in {2, 5}}
    \cup {Ray(<<0, 1>>, <<1, 0>>, 3, 1), Ray(<<2, 2>>, <<1, 0>>, 2, 0)}

\* The max_leaf_size values a query is answered under: 1, the number of
\* instances, and the value load_file uses.
LeafSizes(insts) == {1, Len(insts), SceneMaxLeafSize}

InitBVH ==
    /\ bvh_in \in [insts : UNION {[1..n -> {Shapes[k] : k \in DOMAIN Shapes}] : n \in 1..MaxInst},
                   ray : Rays]
    /\ bvh_out = <<>>
    /\ calls = <<>>
    /\ trace = <<>>
    /\ glass_in = <<>>
    /\ glass = None
    /\ bsdf = None
    /\ bsdf_out = None
    /\ LoadIdle

\* scene.intersect(&mut ray) and bvh.occluded(&ray) on the scene whose BVH
\* is built with each max_leaf_size, each with its own copy of the ray.
Intersect ==
    /\ bvh_in # <<>>
    /\ bvh_out = <<>>
    /\ bvh_out' = [m \in LeafSizes(bvh_in.insts) |->
                     LET self == RenderScene(m, bvh_in.insts)
                         r == Scene_intersect(self, bvh_in.ray)
                     IN  [hit |-> r.hit, ray |-> r.ray,
                          occluded |-> BVH_occluded(self.bvh, bvh_in.ray)]]
    /\ UNCHANGED <<bvh_in, calls, trace, glassVars, loadVars>>

SpecBVH == InitBVH /\ [][Intersect]_vars

\* The distance at which the ray of the query hits instance i on its own.
HitOf(i) == Instance_intersect(bvh_in.insts, i, bvh_in.ray)
\* The instances the ray of the query hits at the least distance.
Nearest ==
    LET hits == [i \in DOMAIN bvh_in.insts |-> HitOf(i)]
    IN  {i \in DOMAIN hits :
            /\ IsSome(hits[i])
            /\ \A j \in DOMAIN hits :
                 IsSome(hits[j]) => Unwrap(hits[i]).t <= Unwrap(hits[j]).t}

Workers == 1..NumWorkers

RenderScenes ==
    {RenderScene(SceneMaxLeafSize, [i \in 1..5 |-> Shapes[((i + off) % Len(Shapes)) + 1]]) :
        off \in {0, 1}}

RenderRays == {r \in Rays : r.d = <<1, 0>> /\ r.max_t = INFINITY}

NoCall == [pc |-> "idle", ray0 |-> None, tr |-> None, result |-> None]

InitRender ==
    /\ scene \in {Some(s) : s \in RenderScenes}
    /\ pc = "done"
    /\ camera = None
    /\ integrator = None
    /\ materials = <<>>
    /\ mat_i = 1
    /\ mesh_cache = <<>>
    /\ obj_loads = <<>>
    /\ stack = <<>>
    /\ nread = 0
    /\ panic = None
    /\ doc = <<>>
    /\ calls = [w \in Workers |-> NoCall]
    /\ trace = <<>>
    /\ bvh_in = <<>>
    /\ bvh_out = <<>>
    /\ glass_in = <<>>
    /\ glass = None
    /\ bsdf = None
    /\ bsdf_out = None

\* Worker w calls scene.intersect(&mut ray) with a ray of its own.
Call(w) ==
    /\ IsSome(scene)
    /\ calls[w].pc \in {"idle", "done"}
    /\ \E ray \in RenderRays :
         calls' = [calls EXCEPT ![w] =
                     [pc |-> "running", ray0 |-> Some(ray),
                      tr |-> Some(Traversal(Unwrap(scene).bvh, ray)), result |-> None]]
    /\ UNCHANGED <<bvh_in, bvh_out, trace, glassVars, loadVars>>

\* A step of a call in which the ray is one object all the calls share: a
\* new max_t is written to the ray of every running call.
IntersectStep_SharedRay(w) ==
    /\ calls[w].pc = "running"
    /\ ~TraversalDone(Unwrap(calls[w].tr))
    /\ LET tr == traversal_step(Unwrap(scene).bvh, Unwrap(calls[w].tr))
       IN  calls' = [v \in Workers |->
                       IF v = w THEN [calls[v] EXCEPT !.tr = Some(tr)]
                       ELSE IF calls[v].pc = "running"
                       THEN [calls[v] EXCEPT !.tr = Some([Unwrap(@) EXCEPT !.ray.max_t = tr.ray.max_t])]
                       ELSE calls[v]]
    /\ UNCHANGED <<bvh_in, bvh_out, trace, glassVars, loadVars>>

\* The call of worker w runs one step of self.bvh.intersect: it reads the
\* scene and works on the caller's ray.
IntersectStep(w) ==
    /\ calls[w].pc = "running"
    /\ ~TraversalDone(Unwrap(calls[w].tr))
    /\ calls' = [calls EXCEPT ![w].tr =
                   Some(traversal_step(Unwrap(scene).bvh, Unwrap(@)))]
    /\ UNCHANGED <<bvh_in, bvh_out, trace, glassVars, loadVars>>

\* The call of worker w returns the closest hit; the caller's ray is as the
\* traversal left it.
Return(w) ==
    /\ calls[w].pc = "running"
    /\ TraversalDone(Unwrap(calls[w].tr))
    /\ calls' = [calls EXCEPT ![w].pc = "done",
                              ![w].result = Some([hit |-> Unwrap(calls[w].tr).hit,
                                                  ray |-> Unwrap(calls[w].tr).ray])]
    /\ UNCHANGED <<bvh_in, bvh_out, trace, glassVars, loadVars>>

NextRender == \E w \in Workers : Call(w) \/ IntersectStep(w) \/ Return(w)

SpecRender == InitRender /\ [][NextRender]_vars

\* C9: under any interleaving of the workers' Scene::intersect calls, each
\* on its own ray, no step changes the scene (camera, BVH, integrator); a
\* step changes the call, and so the ray, of one worker only; and every call
\* returns the hit and leaves the ray that the same call gives run alone.
C9_SceneReadOnly ==
    /\ [][scene' = scene /\ IsSome(scene)]_vars
    /\ [][\A v, w \in Workers :
            (calls'[v] # calls[v] /\ calls'[w] # calls[w]) => v = w]_vars
    /\ [](\A w \in Workers :
            calls[w].pc = "done" =>
                calls[w].result =
                    Some(Scene_intersect(Unwrap(scene), Unwrap(calls[w].ray0))))

\* Worker 1 has returned from a call with a hit while worker 2 is in the
\* middle of a call on another ray with another closest hit so far.
C9_Witness ==
    /\ calls # <<>>
    /\ calls[1].pc = "done" /\ IsSome(Unwrap(calls[1].result).hit)
    /\ calls[2].pc = "running"
    /\ calls[2].ray0 # calls[1].ray0
    /\ Unwrap(calls[2].tr).stack # <<>>
    /\ IsSome(Unwrap(calls[2].tr).hit)
    /\ Unwrap(calls[2].tr).hit # Unwrap(calls[1].result).hit

\* The ray of the query misses the bound of every instance, over the time
\* window of the scene.
MissesEveryBound ==
    \A i \in DOMAIN bvh_in.insts :
        ~bbox_intersect(bounds(bvh_in.insts[i], SceneT0, SceneT1), bvh_in.ray)

\* C11: for a ray that misses the bound of every instance, Scene::intersect
\* (BVH::intersect) returns no hit, None and not a failure, under every
\* max_leaf_size, it leaves the ray as it was, BVH::occluded returns false,
\* and nothing has panicked.
C11_MissIsNone ==
    (bvh_out # <<>> /\ MissesEveryBound) =>
        /\ panic = None
        /\ \A m \in DOMAIN bvh_out :
             /\ bvh_out[m].hit = None
             /\ bvh_out[m].ray = bvh_in.ray
             /\ bvh_out[m].occluded = FALSE

\* A ray that passes between the instances: it misses every instance's
\* bound but enters the bound of the root of the scene's BVH, which has
\* inner nodes, so that the traversal opens nodes before it reports the miss.
C11_Witness ==
    /\ bvh_out # <<>>
    /\ MissesEveryBound
    /\ LET root == RenderScene(SceneMaxLeafSize, bvh_in.insts).bvh.root
       IN  ~root.leaf /\ bbox_intersect(root.bound, bvh_in.ray)
    /\ \A m \in DOMAIN bvh_out : bvh_out[m].hit = None /\ ~bvh_out[m].occluded

(***************************************************************************)
(* The integrators (from the design document, section 4.4): the trace of   *)
(* one camera ray, as a state machine over the recursion depth.  Whether a *)
(* ray hits the scene, how many specular terms the BSDF at a hit has,      *)
(* whether the BSDF sample can be followed and what Russian roulette       *)
(* draws are decided by the scene and the sampler: any outcome is taken.   *)
(***************************************************************************)
NoTrace == [pc |-> "idle", depth |-> 0, pending |-> <<>>, roulette |-> 0]

\* The integrator of the scene being rendered.
TheIntegrator == Unwrap(scene).integrator

\* Path: Russian roulette is applied once depth >= min_depth.
path_roulette(self, depth) == depth >= self.min_depth

\* Path without the hard stop.
path_hard_stop_Never(self, depth) == FALSE

\* Path: the hard stop at max_depth, whatever roulette drew.
path_hard_stop(self, depth) == depth = self.max_depth

\* Whitted: specular rays are spawned while depth < max_depth.
whitted_recurses(self, depth) == depth < self.max_depth

\* The integrator documents: every (min_depth, max_depth) for the path
\* tracer; for Whitted, min_depth with and without a max_depth beside it.
IntegratorDocs ==
    {PathDoc(a, b) : a, b \in 0..MaxBounces}
    \cup {[WhittedDoc(a) EXCEPT !.max_depth = mx] :
            a \in 0..MaxBounces, mx \in {None, Some(0), Some(MaxBounces)}}

\* load_file has returned the scene of a document whose integrator it
\* accepted; no ray is traced yet.
InitTrace ==
    /\ doc \in {Document(CameraDoc(Static(<<T1>>), None), i, <<Matte("m1")>>) :
                  i \in {d \in IntegratorDocs : IsSome(load_integrator(d))}}
    /\ scene = Some([RenderScene(SceneMaxLeafSize, <<Shapes[1]>>)
                       EXCEPT !.integrator = Unwrap(load_integrator(doc.integrator))])
    /\ pc = "done"
    /\ camera = None
    /\ integrator = None
    /\ materials = <<>>
    /\ mat_i = 1
    /\ mesh_cache = <<>>
    /\ obj_loads = <<>>
    /\ stack = <<>>
    /\ nread = 0
    /\ panic = None
    /\ trace = NoTrace
    /\ bvh_in = <<>>
    /\ bvh_out = <<>>
    /\ calls = <<>>
    /\ glass_in = <<>>
    /\ glass = None
    /\ bsdf = None
    /\ bsdf_out = None

\* The camera ray: scene.intersect(&mut ray); the integrator is called on a
\* hit, at depth 0.
TraceCamera ==
    /\ trace.pc = "idle"
    /\ \E hit \in BOOLEAN :
         trace' = IF hit THEN [trace EXCEPT !.pc = "shade", !.pending = <<0>>]
                  ELSE [trace EXCEPT !.pc = "done"]
    /\ UNCHANGED <<bvh_in, bvh_out, calls, glassVars, loadVars>>

\* Path, at a hit: emitted and direct light, then the BSDF is sampled for the
\* direction to continue in; the path ends if the sample cannot be followed.
PathShade ==
    /\ trace.pc = "shade" /\ TheIntegrator.ty = "path"
    /\ \E sampled \in BOOLEAN :
         trace' = IF ~sampled THEN [trace EXCEPT !.pc = "done"]
                  ELSE IF path_roulette(TheIntegrator, trace.depth)
                  THEN [trace EXCEPT !.pc = "roulette"]
                  ELSE [trace EXCEPT !.pc = "bounce"]
    /\ UNCHANGED <<bvh_in, bvh_out, calls, glassVars, loadVars>>

\* Path: Russian roulette ends the path or lets it continue.
PathRoulette ==
    /\ trace.pc = "roulette" /\ TheIntegrator.ty = "path"
    /\ \E survives \in BOOLEAN :
         trace' = [trace EXCEPT !.pc = IF survives THEN "bounce" ELSE "done",
                                !.roulette = @ + 1]
    /\ UNCHANGED <<bvh_in, bvh_out, calls, glassVars, loadVars>>

\* Path: the hard stop; else the next ray is traced, and the path goes on at
\* depth + 1 if it hits.
PathBounce ==
    /\ trace.pc = "bounce" /\ TheIntegrator.ty = "path"
    /\ trace.depth <= MaxBounces
    /\ IF path_hard_stop(TheIntegrator, trace.depth)
       THEN trace' = [trace EXCEPT !.pc = "done"]
       ELSE \E hit \in BOOLEAN :
              trace' = IF hit THEN [trace EXCEPT !.pc = "shade", !.depth = @ + 1,
                                                 !.pending = <<trace.depth + 1>>]
                       ELSE [trace EXCEPT !.pc = "done"]
    /\ UNCHANGED <<bvh_in, bvh_out, calls, glassVars, loadVars>>

\* Whitted, at the hit on top of the recursion: direct light from all the
\* lights; then, while it recurses, one ray per specular term of the BSDF
\* (0, 1 or 2), of which `hits` hit the scene and are shaded at depth + 1.
WhittedIlluminate ==
    /\ trace.pc = "shade" /\ TheIntegrator.ty = "whitted"
    /\ LET depth == Head(trace.pending)
       IN  /\ depth <= MaxBounces + 1
           /\ \E hits \in 0..2 :
                LET spawned == IF whitted_recurses(TheIntegrator, depth)
                               THEN [k \in 1..hits |-> depth + 1] ELSE <<>>
                    pending == spawned \o Tail(trace.pending)
                IN  trace' = [trace EXCEPT !.depth = depth, !.pending = pending,
                                !.pc = IF pending = <<>> THEN "done" ELSE "shade"]
    /\ UNCHANGED <<bvh_in, bvh_out, calls, glassVars, loadVars>>

NextTrace ==
    TraceCamera \/ PathShade \/ PathRoulette \/ PathBounce \/ WhittedIlluminate

SpecTrace == InitTrace /\ [][NextTrace]_vars

\* A worker runs a trace to its end without yielding.
SpecTraceFair == SpecTrace /\ WF_vars(NextTrace)

\* The integrator element of the document the scene was loaded from.
IsPathDoc == doc.integrator.type = "pathtracer"
IsWhittedDoc == doc.integrator.type = "whitted"

\* C12: for every (min_depth, max_depth) of a path-tracer document that
\* load_integrator accepts, min_depth > max_depth included, and for every
\* sequence of hits, BSDF samples and roulette draws: the trace is never at
\* a depth above max_depth, roulette is drawn only at a depth >= min_depth,
\* and the trace ends.
C12_PathTerminates ==
    /\ [](IsPathDoc => trace.depth <= Unwrap(doc.integrator.max_depth))
    /\ [][(IsPathDoc /\ trace'.roulette # trace.roulette) =>
            (trace.depth >= Unwrap(doc.integrator.min_depth) /\ trace'.depth = trace.depth)]_vars
    /\ [][trace.pc = "done" => trace' = trace]_vars
    /\ (IsPathDoc => <>(trace.pc = "done"))

\* A path under min_depth > max_depth that went on to depth max_depth and was
\* stopped there, having drawn no roulette on the way.
C12_Witness ==
    /\ IsPathDoc
    /\ Unwrap(doc.integrator.min_depth) > Unwrap(doc.integrator.max_depth)
    /\ trace.pc = "done"
    /\ trace.depth = Unwrap(doc.integrator.max_depth)
    /\ trace.depth >= 1
    /\ trace.roulette = 0

\* C17: for a 'whitted' document the integrator is Whitted::new(min_depth),
\* whatever 'max_depth' the document gives or omits; every hit of the trace is
\* shaded at a depth <= min_depth, and a hit shaded at depth min_depth
\* spawns no ray: min_depth is the maximum recursion depth.
C17_WhittedDepthIsMinDepth ==
    /\ [](IsWhittedDoc =>
            /\ TheIntegrator = Whitted_new(Unwrap(doc.integrator.min_depth))
            /\ \A k \in DOMAIN trace.pending :
                 trace.pending[k] <= Unwrap(doc.integrator.min_depth))
    /\ [][(IsWhittedDoc /\ trace.pc = "shade"
             /\ Head(trace.pending) = Unwrap(doc.integrator.min_depth)) =>
            trace'.pending = Tail(trace.pending)]_vars

\* A Whitted trace under min_depth >= 1 and a max_depth of 0 in the document
\* that has shaded a hit at depth min_depth and has hits left to shade.
C17_Witness ==
    /\ IsWhittedDoc
    /\ doc.integrator.max_depth = Some(0)
    /\ Unwrap(doc.integrator.min_depth) >= 1
    /\ trace.depth = Unwrap(doc.integrator.min_depth)
    /\ trace.pending # <<>>

(***************************************************************************)
(* Specification of the emitters: area lights over every kind of geometry  *)
(***************************************************************************)
EmitterObjs ==
    {AreaLight(Static(<<T1>>), m, g) :
        m \in {"m1", "m9"},
        g \in {Geom("sphere"), Geom("disk"), Geom("plane"), Geom("cube"),
               MeshGeom(TRUE, <<"a.obj">>, "m1")}}
    \cup {PointLight(Static(<<T1>>), 1), Receiver(Static(<<T1>>), "m1", Geom("plane")),
          Receiver(Static(<<T1>>), "m1", MeshGeom(TRUE, <<"a.obj">>, "m1")),
          Group(Static(<<T2>>)),
          [type |-> "camera", keyframes |-> None, transform |-> Some(JArray(<<T1>>))]}

SpecEmitters == InitLoad(ObjectsDocs) /\ [][NextLoad(EmitterObjs)]_vars

NotSampleableMsg ==
    "Geometry is not sampleable and can't be used for area light geometry"
AreaLights == {gi \in Instances : gi.kind = "area_light"}

\* C13: every area light the loader holds, in the list of a load_objects call
\* or in the scene, owns a sphere or a disk, the one its object gives;
\* load_sampleable_geometry returns geometry for 'sphere' and 'disk' only and
\* panics for 'plane', 'mesh' and any other type; and that panic ends the
\* load: the instance lists are dropped and no scene is returned.
C13_AreaLightsSampleable ==
    /\ \A gi \in AreaLights :
         /\ gi.src.geometry.type \in {"sphere", "disk"}
         /\ gi.geom = Some([ty |-> gi.src.geometry.type])
    /\ \A o \in EmitterObjs :
         o.type = "emitter" /\ o.emitter = "area" =>
            (IsSome(load_sampleable_geometry(o.geometry))
                <=> o.geometry.type \in {"sphere", "disk"})
    /\ panic = Some(NotSampleableMsg) => (pc = "aborted" /\ scene = None /\ stack = <<>>)

\* A load that had read an area light over a disk, inside a group, and was
\* then ended by an area light over non-sampleable geometry.
C13_Witness ==
    /\ panic = Some(NotSampleableMsg)
    /\ nread >= 2
    /\ pc = "aborted"

\* The times an animated transform is queried at.
QueryTimes == 0..(MaxTime + 1)
\* Whether the keyframe list is the single keyframe, at time 0, that holds
\* the transform the element `o` gives in "transform", and evaluates to it
\* at every time.
StaticFrom(keyframes, o) ==
    LET t == Unwrap(load_transform(Unwrap(o.transform)))
    IN  /\ keyframes = <<Keyframe_new(t, 0)>>
        /\ \A time \in QueryTimes : keyframes_transform(keyframes, time) = t
\* Whether the keyframe list is what the "keyframes" of `o` give, with
\* whatever "transform" the element has beside them.
KeyframesFrom(keyframes, o) ==
    /\ <<keyframes>> = Unwrap(load_keyframes(Unwrap(o.keyframes)))
    /\ \A t \in {None, Some(JArray(<<TBad>>)), Some(JString("none")), Some(JArray(<<T3>>))} :
         load_animated_transform([o EXCEPT !.transform = t], NoTransform) = Some(<<keyframes>>)
\* The element's own keyframe list in the animated transform made for it:
\* the last factor, after those of the enclosing groups.
OwnKeyframes(at) == at[Len(at)]
\* The cameras the loader has made.
Cameras ==
    (IF IsSome(camera) THEN {Unwrap(camera)} ELSE {})
    \cup (IF IsSome(scene) THEN {Unwrap(scene).camera} ELSE {})

TransformArrays == UNION {[1..n -> {T1, T2, T3, TBad}] : n \in 0..MaxEntries}
TransformsDocs ==
    {Document(CameraDoc(Static(arr), None), WhittedDoc(1), <<Matte("m1")>>) :
        arr \in TransformArrays}
TransformsObjs ==
    {Receiver(xf, "m1", Geom("sphere")) :
        xf \in {Static(<<T1, T2>>), Static(<<T1, TBad, T2>>),
                Animated(<<KfEntry(0, <<T3, T1>>)>>),
                Animated(<<KfEntry(0, <<TBad, T1>>)>>)}}
    \cup {Group(Static(<<T2, T3>>)),
          AreaLight(Static(<<T2, T1>>), "m1", Geom("disk")),
          [type |-> "camera", keyframes |-> None, transform |-> Some(JArray(<<T1, TBad>>))]}

SpecTransforms == InitLoad(TransformsDocs) /\ [][NextLoad(TransformsObjs)]_vars

\* Whether every entry of the array has a type load_transform recognizes.
Recognized(arr) == \A i \in 1..Len(arr) : arr[i].type \in TransformTypes
\* The product Tn * ... * T1 of the entries T1, ..., Tn of the array: the
\* factors, leftmost first; the identity for the empty array.
LeftProduct(arr) ==
    [i \in 1..Len(arr) |->
        [op |-> arr[Len(arr) + 1 - i].type, arg |-> arr[Len(arr) + 1 - i].arg]]
\* What load_transform is to return for the array.
TransformOf(arr) == IF Recognized(arr) THEN Some(LeftProduct(arr)) ELSE None

Names(instances) == [i \in 1..Len(instances) |-> instances[i].name]

\* C16: no list of load_objects and no scene holds an entry for a group;
\* the instances are in depth-first document order, in each list and from
\* the list of a call to the lists of the calls it makes; a receiver or an
\* emitter adds exactly one instance, at the end of the list of the call that
\* reads it; a group adds none when it is read, and when its call returns
\* its instances are put, all of them and in their order, at the end of the
\* caller's list, after what was read before the group and before what is
\* read after it; load_file hands the outermost list to the scene as it is.
C16_Flattened ==
    /\ [](\A gi \in Instances :
            /\ gi.kind \in {"receiver", "area_light", "point_light"}
            /\ gi.src.type \in {"receiver", "emitter"}
            /\ gi.name <= nread)
    /\ [](\A k \in 1..Len(stack) : \A j \in k..Len(stack) :
            \A a \in 1..Len(stack[k].instances) : \A b \in 1..Len(stack[j].instances) :
                (k < j \/ a < b) => stack[k].instances[a].name < stack[j].instances[b].name)
    /\ [](\A a, b \in 1..Len(Returned) : a < b => Returned[a].name < Returned[b].name)
    /\ [][(nread' = nread + 1 /\ Len(stack') = Len(stack)) =>
            /\ \A k \in 1..Len(stack) - 1 : stack'[k] = stack[k]
            /\ Names(stack'[Len(stack)].instances)
                 = Append(Names(stack[Len(stack)].instances), nread + 1)]_vars
    /\ [][(Len(stack) >= 1 /\ Len(stack') = Len(stack) + 1) =>
            /\ nread' = nread + 1
            /\ SubSeq(stack', 1, Len(stack)) = stack
            /\ stack'[Len(stack')].instances = <<>>]_vars
    /\ [][(Len(stack) >= 2 /\ Len(stack') = Len(stack) - 1) =>
            /\ nread' = nread
            /\ \A k \in 1..Len(stack) - 2 : stack'[k] = stack[k]
            /\ Names(stack'[Len(stack')].instances)
                 = Names(stack[Len(stack) - 1].instances) \o Names(stack[Len(stack)].instances)]_vars
    /\ [][pc' = "done" => Unwrap(scene').bvh.instances = stack[1].instances]_vars

\* A scene of an object and, after it, a group that holds one object: two
\* instances, the first from the top level and the second, the third object
\* read, from the group.
C16_Witness ==
    /\ IsSome(scene)
    /\ Len(Returned) >= 2
    /\ Len(Returned[1].groups) = 0
    /\ Len(Returned[2].groups) = 1
    /\ Names(Returned) = <<1, 3>>

====
